---- MODULE Spec2Model ----
(***************************************************************************)
(* Model of src/src/sagemaker_metrics.py: one invocation of                *)
(* get_endpoint_metrics, which runs the utilization collector, then the    *)
(* invocation collector, then reconciles the two wide tables.  The         *)
(* CloudWatch client is the environment: every backend call either raises  *)
(* or returns a response drawn from a bounded set.                         *)
(***************************************************************************)
EXTENDS Integers, Sequences, FiniteSets

VARIABLES pc, endpoint_name, idx, util_data, inv_data,
          utilization_metrics_df, invocation_metrics_df,
          endpoint_metrics_df, result, exception, propagated, calls, log,
          length_mismatch

vars == <<pc, endpoint_name, idx, util_data, inv_data,
          utilization_metrics_df, invocation_metrics_df,
          endpoint_metrics_df, result, exception, propagated, calls, log,
          length_mismatch>>

(* ---------------------------- bounds ---------------------------------- *)
MaxTimestamp == 2
MaxValue == 2
MaxRecords == 2

Timestamps == 1..MaxTimestamp
Values == 1..MaxValue
Endpoints == {"ep-1"}

(* ------------------------- program constants -------------------------- *)
\* mutant: one utilization metric left out of the list
metrics_one_missing ==
  <<"CPUUtilization", "MemoryUtilization", "DiskUtilization",
    "InferenceLatency", "GPUUtilization">>

\* mutant: one utilization metric listed twice, so it is queried again
metrics_one_repeated ==
  <<"CPUUtilization", "MemoryUtilization", "DiskUtilization",
    "InferenceLatency", "GPUUtilization", "GPUMemoryUtilization",
    "CPUUtilization">>

metrics ==
  <<"CPUUtilization", "MemoryUtilization", "DiskUtilization",
    "InferenceLatency", "GPUUtilization", "GPUMemoryUtilization">>

metric_names ==
  <<"Invocations", "Invocation4XXErrors", "Invocation5XXErrors",
    "ModelLatency", "InvocationsPerInstance">>

KeyColumns == <<"Timestamp", "EndpointName">>

\* str ordering of all metric names, as pivot_table sorts its column labels
AlphabeticalOrder ==
  <<"CPUUtilization", "DiskUtilization", "GPUMemoryUtilization",
    "GPUUtilization", "InferenceLatency", "Invocation4XXErrors",
    "Invocation5XXErrors", "Invocations", "InvocationsPerInstance",
    "MemoryUtilization", "ModelLatency">>

(* ----------------------------- values --------------------------------- *)
Range(s) == {s[j] : j \in DOMAIN s}

\* a missing cell (NaN) and the Python None
Null == <<>>
None == [kind |-> "None"]
Pending == [kind |-> "pending"]

RECURSIVE GCD(_, _)
GCD(a, b) == IF b = 0 THEN a ELSE GCD(b, a % b)

\* the float n/d, kept exact
Float(n, d) == <<n \div GCD(n, d), d \div GCD(n, d)>>

RECURSIVE SumSeq(_)
SumSeq(s) == IF s = <<>> THEN 0 ELSE Head(s) + SumSeq(Tail(s))

Mean(s) == Float(SumSeq(s), Len(s))

Min(a, b) == IF a < b THEN a ELSE b

\* a raw field as the backend sends it: a number, or something that is not one
RawFloat(n) == [type |-> "float", v |-> n]
RawMalformed == [type |-> "str", v |-> 0]
RawValues == {RawFloat(n) : n \in Values} \cup {RawMalformed}

SeqsUpTo(S, n) == UNION {[1..m -> S] : m \in 0..n}

(* ----------------------------- tables --------------------------------- *)
DataFrame(columns, rows) == [kind |-> "DataFrame", columns |-> columns, rows |-> rows]

\* DataFrame.empty: some axis has length 0
IsEmpty(df) == Len(df.columns) = 0 \/ Len(df.rows) = 0

RowKey(row) == <<row["Timestamp"], row["EndpointName"]>>

KeysOf(df) == {RowKey(df.rows[j]) : j \in DOMAIN df.rows}

RECURSIVE SortKeys(_)
SortKeys(K) ==
  IF K = {} THEN <<>>
  ELSE LET m == CHOOSE k \in K : \A o \in K : k[1] <= o[1]
       IN  <<m>> \o SortKeys(K \ {m})

SortNames(S) == SelectSeq(AlphabeticalOrder, LAMBDA n : n \in S)

RECURSIVE Flatten(_)
Flatten(ss) == IF ss = <<>> THEN <<>> ELSE Head(ss) \o Flatten(Tail(ss))

(* ------------------------------ pivot --------------------------------- *)
\* pivot_table's default aggfunc
AggFunc(s) == Mean(s)

\* df.pivot_table(index=['Timestamp','EndpointName'], columns='MetricName',
\*                values=values).reset_index().rename_axis(None, axis=1)
PivotTable(data, values) ==
  LET keys  == {<<data[j].Timestamp, data[j].EndpointName>> : j \in DOMAIN data}
      names == {data[j].MetricName : j \in DOMAIN data}
      Cell(k, n) ==
        LET hits == SelectSeq(data, LAMBDA r : /\ r.Timestamp = k[1]
                                               /\ r.EndpointName = k[2]
                                               /\ r.MetricName = n)
        IN  IF hits = <<>> THEN Null
            ELSE AggFunc([j \in DOMAIN hits |-> hits[j][values]])
      Row(k) == [c \in Range(KeyColumns) \cup names |->
                   IF c = "Timestamp" THEN k[1]
                   ELSE IF c = "EndpointName" THEN k[2]
                   ELSE Cell(k, c)]
      order == SortKeys(keys)
  IN  DataFrame(KeyColumns \o SortNames(names),
                [j \in DOMAIN order |-> Row(order[j])])

(* ------------------------------ merge --------------------------------- *)
\* mutant: how='inner', only the keys both sides have
MergeInner(left, right) ==
  LET on      == Range(KeyColumns)
      columns == left.columns \o SelectSeq(right.columns, LAMBDA c : c \notin on)
      order   == SortKeys(KeysOf(left) \cap KeysOf(right))
      RowFor(k) ==
        LET l == CHOOSE row \in Range(left.rows) : RowKey(row) = k
            r == CHOOSE row \in Range(right.rows) : RowKey(row) = k
        IN  [c \in Range(columns) |-> IF c \in DOMAIN l THEN l[c] ELSE r[c]]
  IN  DataFrame(columns, [j \in DOMAIN order |-> RowFor(order[j])])

\* mutant: pd.concat([left, right]), the rows stacked instead of joined
MergeConcat(left, right) ==
  LET on      == Range(KeyColumns)
      columns == left.columns \o SelectSeq(right.columns, LAMBDA c : c \notin on)
      Widen(row) == [c \in Range(columns) |-> IF c \in DOMAIN row THEN row[c] ELSE Null]
  IN  DataFrame(columns, [j \in DOMAIN left.rows |-> Widen(left.rows[j])]
                         \o [j \in DOMAIN right.rows |-> Widen(right.rows[j])])

\* pd.merge(left, right, on=['Timestamp','EndpointName'], how='outer')
Merge(left, right) ==
  LET on      == Range(KeyColumns)
      lcols   == Range(left.columns) \ on
      rcols   == Range(right.columns) \ on
      columns == left.columns \o SelectSeq(right.columns, LAMBDA c : c \notin on)
      Combine(k, l, r) ==
        [c \in Range(columns) |->
           IF c = "Timestamp" THEN k[1]
           ELSE IF c = "EndpointName" THEN k[2]
           ELSE IF c \in lcols THEN (IF l = Null THEN Null ELSE l[c])
           ELSE IF r = Null THEN Null ELSE r[c]]
      RowsFor(k) ==
        LET L == SelectSeq(left.rows,  LAMBDA row : RowKey(row) = k)
            R == SelectSeq(right.rows, LAMBDA row : RowKey(row) = k)
        IN  IF R = <<>> THEN [j \in DOMAIN L |-> Combine(k, L[j], Null)]
            ELSE IF L = <<>> THEN [j \in DOMAIN R |-> Combine(k, Null, R[j])]
            ELSE [j \in 1..(Len(L) * Len(R)) |->
                    Combine(k, L[((j - 1) \div Len(R)) + 1],
                               R[((j - 1) % Len(R)) + 1])]
      order == SortKeys(KeysOf(left) \cup KeysOf(right))
  IN  DataFrame(columns, Flatten([j \in DOMAIN order |-> RowsFor(order[j])]))

(* ---------------------------- reconcile ------------------------------- *)
\* mutant: no branch for one empty side, the outer join runs against the empty frame
ReconcileAlwaysMerge(u, i) ==
  IF IsEmpty(u) /\ IsEmpty(i) THEN DataFrame(<<>>, <<>>) ELSE Merge(u, i)

\* the if/elif chain of get_endpoint_metrics: the value the call returns
Reconcile(u, i) ==
  IF IsEmpty(u) /\ IsEmpty(i) THEN DataFrame(<<>>, <<>>)
  ELSE IF IsEmpty(u) THEN i
  ELSE IF IsEmpty(i) THEN u
  ELSE Merge(u, i)

LogEntry(level, event) == [level |-> level, event |-> event, endpoint |-> endpoint_name]

\* the log lines of the same chain, and the final info line
ReconcileLog(u, i) ==
  IF IsEmpty(u) /\ IsEmpty(i) THEN <<LogEntry("WARNING", "no utilization or invocation metrics")>>
  ELSE IF IsEmpty(u) THEN <<LogEntry("WARNING", "no utilization metrics"),
                            LogEntry("INFO", "shape of final metrics")>>
  ELSE IF IsEmpty(i) THEN <<LogEntry("WARNING", "no invocation metrics"),
                            LogEntry("INFO", "shape of final metrics")>>
  ELSE IF IsEmpty(Merge(u, i)) THEN <<LogEntry("INFO", "final dataframe is empty or None")>>
  ELSE <<LogEntry("INFO", "shape of final metrics")>>

(* ----------------------------- requests ------------------------------- *)
\* Statistics=['Average']
UtilizationStat(metric_name) == "Average"

\* mutant: the ModelLatency branch is lost
InvocationStatAlwaysSum(metric_name) == "Sum"

\* stat = 'Average' if metric_name == 'ModelLatency' else 'Sum'
InvocationStat(metric_name) ==
  IF metric_name = "ModelLatency" THEN "Average" ELSE "Sum"

StatisticsRequest(metric_name) ==
  [op |-> "get_metric_statistics", Namespace |-> "/aws/sagemaker/Endpoints",
   MetricNames |-> <<metric_name>>, Stat |-> UtilizationStat(metric_name)]

DataRequest(metric_name) ==
  [op |-> "get_metric_data", Namespace |-> "AWS/SageMaker",
   MetricNames |-> <<metric_name>>, Stat |-> InvocationStat(metric_name)]

(* ---------------------------- validation ------------------------------ *)
\* pydantic: a float field accepts a number and rejects anything else
IsValid(raw) == raw.type = "float"

\* index of the first datapoint that fails validation, 0 when all pass
FirstInvalid(points) ==
  IF \A j \in DOMAIN points : IsValid(points[j].v) THEN 0
  ELSE CHOOSE j \in DOMAIN points :
         /\ ~IsValid(points[j].v)
         /\ \A m \in 1..(j - 1) : IsValid(points[m].v)

\* zip(timestamps, values)
Zip(timestamps, values) ==
  [j \in 1..Min(Len(timestamps), Len(values)) |-> [t |-> timestamps[j], v |-> values[j]]]

\* the records appended to data before the loop ends or a validation raises
Records(points, metric_name, field) ==
  LET n == IF FirstInvalid(points) = 0 THEN Len(points) ELSE FirstInvalid(points) - 1
  IN  [j \in 1..n |->
         IF field = "Average"
         THEN [EndpointName |-> endpoint_name, Timestamp |-> points[j].t,
               MetricName |-> metric_name, Average |-> points[j].v.v]
         ELSE [EndpointName |-> endpoint_name, Timestamp |-> points[j].t,
               MetricName |-> metric_name, Value |-> points[j].v.v]]

\* mutant: except botocore ClientError only, a validation error escapes
HandleExceptionClientErrorOnly(e) ==
  [returned |-> None, propagated |-> (e # "ClientError")]

\* except Exception as e: log, return None
HandleException(e) == [returned |-> None, propagated |-> FALSE]

(* --------------------------- backend responses ------------------------ *)
\* what the backend may still send: at most MaxRecords entries are collected
\* during one invocation, and no response is longer than the room left
Room == MaxRecords - (Len(util_data) + Len(inv_data))

RawDatapoints == [t : Timestamps, v : RawValues]
StatisticsResponses == SeqsUpTo(RawDatapoints, Room)
DataResponses == [Timestamps : SeqsUpTo(Timestamps, Room),
                  Values : SeqsUpTo(RawValues, Room)]

(* ------------------------------ actions ------------------------------- *)
Init ==
  /\ pc = "idle"
  /\ endpoint_name = "-"
  /\ idx = 0
  /\ util_data = <<>>
  /\ inv_data = <<>>
  /\ utilization_metrics_df = None
  /\ invocation_metrics_df = None
  /\ endpoint_metrics_df = None
  /\ result = Pending
  /\ exception = "none"
  /\ propagated = FALSE
  /\ calls = <<>>
  /\ log = <<>>
  /\ length_mismatch = FALSE

\* the caller enters get_endpoint_metrics(params)
GetEndpointMetrics ==
  /\ pc = "idle"
  /\ \E e \in Endpoints : endpoint_name' = e
  /\ pc' = "utilization"
  /\ idx' = 1
  /\ log' = Append(log, [level |-> "INFO", event |-> "retrieve utilization metrics",
                         endpoint |-> endpoint_name'])
  /\ UNCHANGED <<util_data, inv_data, utilization_metrics_df, invocation_metrics_df,
                 endpoint_metrics_df, result, exception, propagated, calls,
                 length_mismatch>>

\* an exception leaves the collector and reaches the except clause
Raise(e) ==
  /\ pc' = "done"
  /\ exception' = e
  /\ result' = HandleException(e).returned
  /\ propagated' = HandleException(e).propagated
  /\ log' = IF HandleException(e).propagated THEN log
            ELSE Append(log, LogEntry("ERROR", e))

\* one iteration of the loop over metrics in _get_endpoint_utilization_metrics
UtilizationQuery ==
  /\ pc = "utilization"
  /\ idx <= Len(metrics)
  /\ calls' = Append(calls, StatisticsRequest(metrics[idx]))
  /\ \/ /\ Raise("ClientError")
        /\ UNCHANGED <<idx, util_data>>
     \/ \E response \in StatisticsResponses :
          /\ util_data' = util_data \o Records(response, metrics[idx], "Average")
          /\ IF FirstInvalid(response) # 0
             THEN Raise("ValidationError") /\ UNCHANGED idx
             ELSE idx' = idx + 1 /\ UNCHANGED <<pc, exception, result, propagated, log>>
  /\ UNCHANGED <<endpoint_name, inv_data, utilization_metrics_df, invocation_metrics_df,
                 endpoint_metrics_df, length_mismatch>>

\* the end of _get_endpoint_utilization_metrics: empty frame or pivot
UtilizationReturn ==
  /\ pc = "utilization"
  /\ idx = Len(metrics) + 1
  /\ IF util_data = <<>>
     THEN /\ utilization_metrics_df' = DataFrame(KeyColumns \o metrics, <<>>)
          /\ log' = log \o <<LogEntry("WARNING", "no utilization datapoints"),
                             LogEntry("INFO", "retrieve invocation metrics")>>
     ELSE /\ utilization_metrics_df' = PivotTable(util_data, "Average")
          /\ log' = Append(log, LogEntry("INFO", "retrieve invocation metrics"))
  /\ pc' = "invocation"
  /\ idx' = 1
  /\ UNCHANGED <<endpoint_name, util_data, inv_data, invocation_metrics_df,
                 endpoint_metrics_df, result, exception, propagated, calls,
                 length_mismatch>>

\* one iteration of the loop over metric_names in _get_endpoint_invocation_metrics
InvocationQuery ==
  /\ pc = "invocation"
  /\ idx <= Len(metric_names)
  /\ calls' = Append(calls, DataRequest(metric_names[idx]))
  /\ \/ /\ Raise("ClientError")
        /\ UNCHANGED <<idx, inv_data, length_mismatch>>
     \/ \E response \in DataResponses :
          LET points == Zip(response.Timestamps, response.Values)
          IN  /\ length_mismatch' =
                   (length_mismatch \/ Len(response.Timestamps) # Len(response.Values))
              /\ inv_data' = inv_data \o Records(points, metric_names[idx], "Value")
              /\ IF FirstInvalid(points) # 0
                 THEN Raise("ValidationError") /\ UNCHANGED idx
                 ELSE idx' = idx + 1
                      /\ UNCHANGED <<pc, exception, result, propagated, log>>
  /\ UNCHANGED <<endpoint_name, util_data, utilization_metrics_df, invocation_metrics_df,
                 endpoint_metrics_df>>

\* the end of _get_endpoint_invocation_metrics: empty frame or pivot
InvocationReturn ==
  /\ pc = "invocation"
  /\ idx = Len(metric_names) + 1
  /\ IF inv_data = <<>>
     THEN /\ invocation_metrics_df' = DataFrame(KeyColumns \o metric_names, <<>>)
          /\ log' = Append(log, LogEntry("WARNING", "no invocation datapoints"))
     ELSE /\ invocation_metrics_df' = PivotTable(inv_data, "Value")
          /\ UNCHANGED log
  /\ pc' = "reconcile"
  /\ UNCHANGED <<endpoint_name, idx, util_data, inv_data, utilization_metrics_df,
                 endpoint_metrics_df, result, exception, propagated, calls,
                 length_mismatch>>

\* the empty checks, the merge and the return of get_endpoint_metrics
ReconcileAndReturn ==
  /\ pc = "reconcile"
  /\ result' = Reconcile(utilization_metrics_df, invocation_metrics_df)
  /\ endpoint_metrics_df' =
       IF IsEmpty(utilization_metrics_df) /\ IsEmpty(invocation_metrics_df)
       THEN None
       ELSE Reconcile(utilization_metrics_df, invocation_metrics_df)
  /\ log' = log \o ReconcileLog(utilization_metrics_df, invocation_metrics_df)
  /\ pc' = "done"
  /\ UNCHANGED <<endpoint_name, idx, util_data, inv_data, utilization_metrics_df,
                 invocation_metrics_df, exception, propagated, calls, length_mismatch>>

Next ==
  \/ GetEndpointMetrics
  \/ UtilizationQuery
  \/ UtilizationReturn
  \/ InvocationQuery
  \/ InvocationReturn
  \/ ReconcileAndReturn

Spec == Init /\ [][Next]_vars

(* ============================ properties ============================== *)
Done == pc = "done"
Succeeded == pc = "done" /\ exception = "none"
IsFrame(df) == df.kind = "DataFrame"
HasData(df) == IsFrame(df) /\ ~IsEmpty(df)
MetricColumns(df) == Range(df.columns) \ Range(KeyColumns)
RowsAt(df, k) == {j \in DOMAIN df.rows : RowKey(df.rows[j]) = k}
BothHaveData == Succeeded /\ HasData(utilization_metrics_df) /\ HasData(invocation_metrics_df)
UniqueKeys(df) == \A k \in KeysOf(df) : Cardinality(RowsAt(df, k)) = 1

\* C1: whenever a backend query or a datapoint validation raises inside a
\* collector, get_endpoint_metrics returns None and nothing propagates to the
\* caller, also when the utilization collector had already returned data.
C1_FailureReturnsNone ==
  (Done /\ exception # "none") => (result = None /\ ~propagated)

C1_Witness ==
  /\ Done
  /\ exception # "none"
  /\ HasData(utilization_metrics_df)
  /\ result = None

\* C2: with both tables non-empty the merged keys are the union of the two
\* key sets, a key of one side only has Null in every metric column of the
\* other side, and disjoint key sets give |utilization| + |invocation| rows.
C2_OuterJoinUnion ==
  BothHaveData =>
    LET u == utilization_metrics_df
        i == invocation_metrics_df
    IN  /\ KeysOf(result) = KeysOf(u) \cup KeysOf(i)
        /\ \A j \in DOMAIN result.rows :
             LET row == result.rows[j]
             IN  /\ RowKey(row) \notin KeysOf(i) =>
                      \A c \in MetricColumns(i) : row[c] = Null
                 /\ RowKey(row) \notin KeysOf(u) =>
                      \A c \in MetricColumns(u) : row[c] = Null
        /\ (KeysOf(u) \cap KeysOf(i) = {}) =>
             Len(result.rows) = Len(u.rows) + Len(i.rows)

C2_Witness ==
  /\ BothHaveData
  /\ KeysOf(utilization_metrics_df) \cap KeysOf(invocation_metrics_df) = {}
  /\ Len(result.rows) = 2

\* C3: with exactly one side empty the call returns the other side as it is:
\* same rows, same columns, nothing added from the empty side.
C3_OneSideEmptyIdentity ==
  Succeeded =>
    /\ (IsEmpty(utilization_metrics_df) /\ ~IsEmpty(invocation_metrics_df))
         => result = invocation_metrics_df
    /\ (~IsEmpty(utilization_metrics_df) /\ IsEmpty(invocation_metrics_df))
         => result = utilization_metrics_df

C3_Witness ==
  /\ Succeeded
  /\ IsEmpty(utilization_metrics_df)
  /\ ~IsEmpty(invocation_metrics_df)
  /\ Len(result.rows) >= 1
  /\ Range(result.columns) \cap Range(metrics) = {}

\* C4: when the backend sends no datapoint at all and nothing fails, both
\* collectors return zero-row frames with their fixed columns and the call
\* returns a zero-row frame that still carries the expected columns.
C4_EmptyResultKeepsSchema ==
  (Succeeded /\ util_data = <<>> /\ inv_data = <<>> /\ ~length_mismatch) =>
    /\ utilization_metrics_df = DataFrame(KeyColumns \o metrics, <<>>)
    /\ invocation_metrics_df = DataFrame(KeyColumns \o metric_names, <<>>)
    /\ IsFrame(result)
    /\ Len(result.rows) = 0
    /\ Range(KeyColumns) \cup Range(metrics) \cup Range(metric_names)
         \subseteq Range(result.columns)

\* C5: a data-query response whose timestamp and value sequences differ in
\* length makes the invocation collector fail and the call return None.
C5_LengthMismatchFails ==
  (Done /\ length_mismatch) => (exception # "none" /\ result = None)

\* C7: a wide table has one row per (timestamp, endpoint), and duplicate
\* datapoints of one metric at one key are not silently combined: the
\* collector fails, or keeps the last value and logs a data-quality signal.
Duplicated(data) ==
  {<<data[a].Timestamp, data[a].MetricName>> : a \in
     {a \in DOMAIN data : \E b \in DOMAIN data :
        /\ a # b
        /\ data[a].Timestamp = data[b].Timestamp
        /\ data[a].MetricName = data[b].MetricName}}

LastOf(data, d, field) ==
  LET at == {a \in DOMAIN data : data[a].Timestamp = d[1] /\ data[a].MetricName = d[2]}
      last == CHOOSE a \in at : \A b \in at : b <= a
  IN  data[last][field]

DuplicatesHandled(df, data, field) ==
  (IsFrame(df) /\ Duplicated(data) # {}) =>
    /\ \E j \in DOMAIN log : log[j].event = "duplicate datapoints"
    /\ \A d \in Duplicated(data) : \A j \in DOMAIN df.rows :
         df.rows[j]["Timestamp"] = d[1] =>
           df.rows[j][d[2]] = Float(LastOf(data, d, field), 1)

C7_DuplicatesNotSilentlyCombined ==
  /\ IsFrame(utilization_metrics_df) => UniqueKeys(utilization_metrics_df)
  /\ IsFrame(invocation_metrics_df) => UniqueKeys(invocation_metrics_df)
  /\ DuplicatesHandled(utilization_metrics_df, util_data, "Average")
  /\ DuplicatesHandled(invocation_metrics_df, inv_data, "Value")

\* C6: a key present in both tables gives exactly one merged row, holding the
\* utilization table's values in the utilization columns and the invocation
\* table's values in the invocation columns.
C6_SharedKeyRow ==
  BothHaveData =>
    LET u == utilization_metrics_df
        i == invocation_metrics_df
    IN  /\ MetricColumns(u) \cap MetricColumns(i) = {}
        /\ \A k \in KeysOf(u) \cap KeysOf(i) :
             /\ Cardinality(RowsAt(result, k)) = 1
             /\ \A j \in RowsAt(result, k) :
                  /\ \A a \in RowsAt(u, k) : \A c \in MetricColumns(u) :
                       result.rows[j][c] = u.rows[a][c]
                  /\ \A b \in RowsAt(i, k) : \A c \in MetricColumns(i) :
                       result.rows[j][c] = i.rows[b][c]

C6_Witness ==
  /\ BothHaveData
  /\ KeysOf(utilization_metrics_df) \cap KeysOf(invocation_metrics_df) # {}
  /\ Len(result.rows) = 1

\* C8: the data query for ModelLatency asks for Average, those for the four
\* other invocation metrics ask for Sum, every statistics query asks for Average.
C8_StatisticPerMetric ==
  \A j \in DOMAIN calls :
    LET call == calls[j]
    IN  /\ call.op = "get_metric_statistics" => call.Stat = "Average"
        /\ (call.op = "get_metric_data" /\ call.MetricNames = <<"ModelLatency">>)
             => call.Stat = "Average"
        /\ (call.op = "get_metric_data" /\
            call.MetricNames[1] \in {"Invocations", "Invocation4XXErrors",
                                     "Invocation5XXErrors", "InvocationsPerInstance"})
             => call.Stat = "Sum"

C8_Witness ==
  /\ Succeeded
  /\ \E j \in DOMAIN calls : calls[j].MetricNames = <<"ModelLatency">> /\ calls[j].Stat = "Average"
  /\ \E j \in DOMAIN calls : calls[j].MetricNames = <<"Invocations">> /\ calls[j].Stat = "Sum"

\* C9 as stated: an invocation in which no backend call fails issues exactly
\* twelve backend calls, one metric per call (read here in the claim's favour:
\* only invocations that run to completion are counted).
C9_TwelveCalls ==
  Succeeded =>
    /\ Len(calls) = 12
    /\ \A j \in DOMAIN calls : Len(calls[j].MetricNames) = 1

\* C9 amended: an invocation in which no backend call fails and no datapoint
\* validation raises issues exactly eleven backend calls, six statistics
\* queries and five data queries, one per metric and one metric per call.
C9_ElevenCalls ==
  Succeeded =>
    /\ Len(calls) = 11
    /\ Cardinality({j \in DOMAIN calls : calls[j].op = "get_metric_statistics"}) = 6
    /\ Cardinality({j \in DOMAIN calls : calls[j].op = "get_metric_data"}) = 5
    /\ \A j \in DOMAIN calls : Len(calls[j].MetricNames) = 1
    /\ Cardinality({calls[j].MetricNames[1] : j \in DOMAIN calls}) = 11

C9_Witness ==
  /\ Succeeded
  /\ Len(calls) = 11
  /\ HasData(result)

\* C10: the calls of one invocation are issued one at a time, every
\* utilization query before any invocation query, no metric is queried twice,
\* and after a failed call or validation no further call is issued; a failure
\* inside the utilization collector leaves zero invocation queries.
\* a failure inside the utilization collector: only statistics queries were sent
NoInvocationQueryAfterUtilizationFailure ==
  (exception # "none" /\ ~IsFrame(utilization_metrics_df)) =>
    \A j \in DOMAIN calls : calls[j].op = "get_metric_statistics"

\* a step issues no call, or exactly one new call: never after a failure, never
\* for a metric already queried, and never a utilization query after an
\* invocation query
CallStep ==
  \/ calls' = calls
  \/ /\ exception = "none"
     /\ Len(calls') = Len(calls) + 1
     /\ \A j \in DOMAIN calls : calls'[j] = calls[j]
     /\ LET call == calls'[Len(calls')]
        IN  /\ \A j \in DOMAIN calls :
                 <<calls[j].op, calls[j].MetricNames>> # <<call.op, call.MetricNames>>
            /\ call.op = "get_metric_statistics" =>
                 \A j \in DOMAIN calls : calls[j].op = "get_metric_statistics"

C10_SequentialNoRetry ==
  [](NoInvocationQueryAfterUtilizationFailure) /\ [][CallStep]_vars

C10_Witness ==
  /\ Done
  /\ exception # "none"
  /\ ~IsFrame(utilization_metrics_df)
  /\ Len(calls) >= 2
  /\ \A j \in DOMAIN calls : calls[j].op = "get_metric_statistics"

====
